---- MODULE Spec2Model ----
(***************************************************************************)
(* rallyboard apps/app.py: a clock-face frame producer.  main() reads one  *)
(* JSON configuration from standard input, computes a wall-clock deadline, *)
(* loads a font and then, while the deadline has not passed, renders the   *)
(* time on a 128x64 canvas, PNG-encodes it, writes it length-prefixed to   *)
(* standard output, flushes and sleeps 0.25 s.                             *)
(*                                                                         *)
(* Time is counted in clock units of 1/8 s, so the 0.25 s sleep is 2 units *)
(* and one second is 8 units.  The clock never runs backwards.             *)
(***************************************************************************)
EXTENDS Integers, Sequences, FiniteSets, TLC

VARIABLES
    stdin,      \* the text on standard input (fixed for the run)
    pc,         \* position of main()
    err,        \* the exception that ended the process, "none" otherwise
    now,        \* the wall clock, in clock units
    start,      \* time.time() as read on line 17
    end,        \* the deadline computed on line 17
    font,       \* "none" | "truetype" | "default"
    img,        \* the canvas of the current tick
    blob,       \* the encoded buffer of the current tick
    buf,        \* bytes held by sys.stdout.buffer, not yet handed to the pipe
    out,        \* bytes that reached the consumer end of standard output
    frames,     \* frames whose flush completed
    ticks,      \* deadline checks that passed
    tickStart,  \* time of the deadline check that opened the current tick
    sleeps,     \* completed sleeps
    lag,        \* time spent so far on anything but the fixed sleeps
    size,       \* tw, th: the text size measured on line 26
    last        \* the time string and encoded buffer of the tick before

vars == <<stdin, pc, err, now, start, end, font, img, blob, buf, out, frames,
          ticks, tickStart, sleeps, lag, size, last>>

(***************************************************************************)
(* Program constants.                                                      *)
(***************************************************************************)
W == 128
H == 64
\* time.sleep(0.25): 0.25 s is 2 clock units of 1/8 s
Tick == 2
UnitsPerSec == 4 * Tick
\* params.get("duration_sec", 10): the default, in seconds
DefaultDuration == 10
SecondsPerDay == 24 * 60 * 60
\* the clock readings at which a run may start: on a second's boundary and
\* one unit before the next one
StartTimes == {0, UnitsPerSec - 1}

(***************************************************************************)
(* Bounds of the model.                                                    *)
(***************************************************************************)
\* time that passes while the font loads, and between a tick's deadline
\* check and the end of its render+encode, in 0..MaxLatency clock units
MaxLatency == 2
\* time.sleep may return up to MaxOversleep units late
MaxOversleep == 1
\* runs are followed until MaxFrames frames have been flushed
MaxFrames == 5
\* the text sizes the drawing call is tried on: widths 0..MaxTextW and
\* heights 0..MaxTextH, which go beyond the canvas
MaxTextW == 133
MaxTextH == 68

(***************************************************************************)
(* Standard input and json.loads.                                          *)
(***************************************************************************)
InputTexts ==
    { "", "{}", "{\"duration_sec\": 0}", "{\"duration_sec\": 0.5}",
      "{\"duration_sec\": 0.125}",
      "{\"duration_sec\": 1}", "{\"duration_sec\": -1}", "{\"other\": 3}",
      "{\"duration_sec\": \"5\"}", "{\"duration_sec\": null}",
      "{", " ", "not json", "[]", "null", "7" }

\* a parse result: ok = FALSE is json.JSONDecodeError; kind is the Python
\* type of the value; has / numeric / dur describe the key duration_sec
\* (dur in clock units)
Parsed(ok, kind, has, numeric, dur) ==
    [ok |-> ok, kind |-> kind, has |-> has, numeric |-> numeric, dur |-> dur]

JsonLoads(text) ==
    CASE text = "{}" -> Parsed(TRUE, "dict", FALSE, FALSE, 0)
      [] text = "{\"other\": 3}" -> Parsed(TRUE, "dict", FALSE, FALSE, 0)
      [] text = "{\"duration_sec\": 0}" -> Parsed(TRUE, "dict", TRUE, TRUE, 0)
      [] text = "{\"duration_sec\": 0.5}" ->
             Parsed(TRUE, "dict", TRUE, TRUE, UnitsPerSec \div 2)
      [] text = "{\"duration_sec\": 0.125}" ->
             Parsed(TRUE, "dict", TRUE, TRUE, UnitsPerSec \div 8)
      [] text = "{\"duration_sec\": 1}" ->
             Parsed(TRUE, "dict", TRUE, TRUE, UnitsPerSec)
      [] text = "{\"duration_sec\": -1}" ->
             Parsed(TRUE, "dict", TRUE, TRUE, 0 - UnitsPerSec)
      [] text = "{\"duration_sec\": \"5\"}" ->
             Parsed(TRUE, "dict", TRUE, FALSE, 0)
      [] text = "{\"duration_sec\": null}" ->
             Parsed(TRUE, "dict", TRUE, FALSE, 0)
      [] text = "[]" -> Parsed(TRUE, "list", FALSE, FALSE, 0)
      [] text = "null" -> Parsed(TRUE, "NoneType", FALSE, FALSE, 0)
      [] text = "7" -> Parsed(TRUE, "int", FALSE, FALSE, 0)
      [] OTHER -> Parsed(FALSE, "none", FALSE, FALSE, 0)

\* sys.stdin.read() or "{}": only the empty string is falsy
OrDefaultTextMissing(text) == text
OrDefaultText(text) == IF text = "" THEN "{}" ELSE text

\* json.loads(sys.stdin.read() or "{}")
LoadParams(text) == JsonLoads(OrDefaultText(text))

\* params.get("duration_sec", 10), in clock units
GetDurationNoDefault(params) == params.dur
GetDurationFalsy(params) ==
    IF params.has /\ params.dur # 0 THEN params.dur
    ELSE DefaultDuration * UnitsPerSec
GetDuration(params) ==
    IF params.has THEN params.dur ELSE DefaultDuration * UnitsPerSec

\* the exception lines 16-17 raise for the parsed value, "none" if none
StartupErrorNoTypeError(params) ==
    IF ~params.ok THEN "JSONDecodeError"
    ELSE IF params.kind # "dict" THEN "AttributeError"
    ELSE "none"
StartupError(params) ==
    IF ~params.ok THEN "JSONDecodeError"
    ELSE IF params.kind # "dict" THEN "AttributeError"
    ELSE IF params.has /\ ~params.numeric THEN "TypeError"
    ELSE "none"

(***************************************************************************)
(* Renderer: lines 23-27.                                                  *)
(***************************************************************************)
\* a canvas: the text drawn last, where and with which font, and the number
\* of texts drawn before it that lie under it; NoImg is the all-black one
NoImg == [s |-> <<0, 0, 0>>, x |-> 0, y |-> 0, font |-> "none", under |-> 0]

\* Image.new("RGB",(W,H)): a new all-black canvas, whatever the last one was
ReuseImage(prev) == prev
NewImage(prev) == NoImg

\* time.strftime("%H:%M:%S") at clock reading t
TimeStr(t) ==
    LET sec == (t \div UnitsPerSec) % SecondsPerDay
    IN  <<sec \div 3600, (sec \div 60) % 60, sec % 60>>

\* d.textsize(s, font=font): the measured width and height of the text
TextSize(s, f) ==
    IF f = "truetype" THEN <<108 + (IF s[3] % 10 = 1 THEN 0 ELSE 2), 21>>
    ELSE <<48, 11>>

\* ((W-tw)//2, (H-th)//2): // rounds towards minus infinity
OriginTruncating(tw, th) ==
    <<IF W - tw >= 0 THEN (W - tw) \div 2 ELSE 0 - ((tw - W) \div 2),
      IF H - th >= 0 THEN (H - th) \div 2 ELSE 0 - ((th - H) \div 2)>>
Origin(tw, th) == <<(W - tw) \div 2, (H - th) \div 2>>

\* line 27: d.text(origin, s, ...) on the canvas c, for the measured size sz
DrawText(c, s, f, sz) ==
    LET o == Origin(sz[1], sz[2])
    IN  [s |-> s, x |-> o[1], y |-> o[2], font |-> f,
         under |-> IF c = NoImg THEN 0 ELSE c.under + 1]

\* lines 23-27 for the time string s and the font f
Render(s, f) == DrawText(NoImg, s, f, TextSize(s, f))

(***************************************************************************)
(* Emitter: lines 8-13.                                                    *)
(***************************************************************************)
RECURSIVE StripTrailingZeros(_)
StripTrailingZeros(q) ==
    IF q = <<>> \/ q[Len(q)] # 0 THEN q
    ELSE StripTrailingZeros(SubSeq(q, 1, Len(q) - 1))

\* img.save(b, "PNG"); b.getvalue(): a lossless encoding whose length
\* depends on the picture
PngEncode(i) ==
    <<137, IF i.font = "truetype" THEN 1 ELSE 0, i.x % 256, i.y % 256,
      i.under % 256>> \o StripTrailingZeros(i.s)

\* struct.pack("!I", n): 4 bytes, big-endian, unsigned
PackLittleEndian(n) ==
    <<n % 256, (n \div 256) % 256, (n \div 65536) % 256,
      (n \div 16777216) % 256>>
Pack(n) ==
    <<(n \div 16777216) % 256, (n \div 65536) % 256, (n \div 256) % 256,
      n % 256>>

\* the inverse reading a consumer performs on 4 bytes
Unpack(q) == ((q[1] * 256 + q[2]) * 256 + q[3]) * 256 + q[4]

\* sys.stdout.flush(): everything held by the buffer reaches the pipe
NoFlush(o, b) == [out |-> o, buf |-> b]
FlushStream(o, b) == [out |-> o \o b, buf |-> <<>>]

\* an exception raised by a write or by the flush is caught nowhere
WriteErrorSwallowed == "sleep"
AfterWriteError == "crashed"

(***************************************************************************)
(* Scheduler: lines 15-29.                                                 *)
(***************************************************************************)
\* while time.time() < end
DeadlineOpenInclusive(t, e) == t <= e
DeadlineAlwaysOpen(t, e) == TRUE
DeadlineOpenEarly(t, e) == t + Tick < e
DeadlineOpen(t, e) == t < e

\* try: ImageFont.truetype(...) except: ImageFont.load_default()
LoadFontNoFallback(preferredOk) ==
    IF preferredOk THEN [font |-> "truetype", err |-> "none"]
    ELSE [font |-> "none", err |-> "OSError"]
LoadFontResult(preferredOk) ==
    IF preferredOk THEN [font |-> "truetype", err |-> "none"]
    ELSE [font |-> "default", err |-> "none"]

\* time.sleep(0.25) entered at t and returning over units late
SleepNoAdvance(t, over) == t
SleepAbsolute(t, over) ==
    (IF tickStart + Tick > t THEN tickStart + Tick ELSE t) + over
SleepUntil(t, over) == t + Tick + over

Running == {"check", "render", "encode", "hdr", "blob", "flush", "sleep"}

Init ==
    /\ stdin \in InputTexts
    /\ now \in StartTimes
    /\ pc = "start"
    /\ err = "none"
    /\ start = 0
    /\ end = 0
    /\ font = "none"
    /\ img = NoImg
    /\ blob = <<>>
    /\ buf = <<>>
    /\ out = <<>>
    /\ frames = 0
    /\ ticks = 0
    /\ tickStart = 0
    /\ sleeps = 0
    /\ lag = 0
    /\ size = <<0, 0>>
    /\ last = [s |-> <<0, 0, 0>>, blob |-> <<>>]

\* lines 16-17: read and parse the configuration, compute the deadline
ReadConfig ==
    /\ pc = "start"
    /\ LET params == LoadParams(stdin)
           e == StartupError(params)
       IN  IF e # "none"
           THEN /\ pc' = "crashed"
                /\ err' = e
                /\ UNCHANGED <<start, end>>
           ELSE /\ pc' = "font"
                /\ start' = now
                /\ end' = now + GetDuration(params)
                /\ UNCHANGED err
    /\ UNCHANGED <<stdin, now, font, img, blob, buf, out, frames, ticks,
                   tickStart, sleeps, lag, size,
                   last>>

\* lines 18-21: load the preferred font, fall back to the built-in one
LoadFont ==
    /\ pc = "font"
    /\ \E preferredOk \in BOOLEAN, dt \in 0..MaxLatency :
          LET r == LoadFontResult(preferredOk)
          IN  /\ font' = r.font
              /\ err' = r.err
              /\ pc' = IF r.err = "none" THEN "check" ELSE "crashed"
              /\ now' = now + dt
              /\ lag' = lag + dt
    /\ UNCHANGED <<stdin, start, end, img, blob, buf, out, frames, ticks,
                   tickStart, sleeps, size,
                   last>>

\* line 22: the deadline check at the top of a tick
Check ==
    /\ pc = "check"
    /\ IF DeadlineOpen(now, end)
       THEN /\ frames < MaxFrames
            /\ pc' = "render"
            /\ ticks' = ticks + 1
            /\ tickStart' = now
       ELSE /\ pc' = "done"
            /\ UNCHANGED <<ticks, tickStart>>
    /\ UNCHANGED <<stdin, err, now, start, end, font, img, blob, buf, out,
                   frames, sleeps, lag, size,
                   last>>

\* lines 23-27: a fresh canvas with the current time centred on it
RenderFrame ==
    /\ pc = "render"
    /\ \E dt \in 0..MaxLatency :
          /\ now' = now + dt
          /\ lag' = lag + dt
          /\ size' = TextSize(TimeStr(now + dt), font)
          /\ img' = DrawText(NewImage(img), TimeStr(now + dt), font, size')
    /\ last' = [s |-> img.s, blob |-> blob]
    /\ pc' = "encode"
    /\ UNCHANGED <<stdin, err, start, end, font, blob, buf, out, frames,
                   ticks, tickStart, sleeps>>

\* lines 9-10: encode the canvas
Encode ==
    /\ pc = "encode"
    /\ \E dt \in 0..MaxLatency :
          /\ now' = now + dt
          /\ lag' = lag + dt
    /\ blob' = PngEncode(img)
    /\ pc' = "hdr"
    /\ UNCHANGED <<stdin, err, start, end, font, img, buf, out, frames,
                   ticks, tickStart, sleeps, size,
                   last>>

\* line 11: the 4-byte header; the buffer was emptied by the last flush, so
\* the 4 bytes are held by it
WriteHeader ==
    /\ pc = "hdr"
    /\ buf' = buf \o Pack(Len(blob))
    /\ UNCHANGED out
    /\ pc' = "blob"
    /\ UNCHANGED <<stdin, err, now, start, end, font, img, blob, frames,
                   ticks, tickStart, sleeps, lag, size,
                   last>>

\* line 12: the encoded buffer; the buffer keeps it, or (a buffer too small
\* for it) hands everything it holds to the pipe at once
WriteBlob ==
    /\ pc = "blob"
    /\ \E through \in BOOLEAN :
          IF through
          THEN out' = out \o buf \o blob /\ buf' = <<>>
          ELSE buf' = buf \o blob /\ UNCHANGED out
    /\ pc' = "flush"
    /\ UNCHANGED <<stdin, err, now, start, end, font, img, blob, frames,
                   ticks, tickStart, sleeps, lag, size,
                   last>>

\* line 13: flush
Flush ==
    /\ pc = "flush"
    /\ LET r == FlushStream(out, buf)
       IN  out' = r.out /\ buf' = r.buf
    /\ frames' = frames + 1
    /\ pc' = "sleep"
    /\ UNCHANGED <<stdin, err, now, start, end, font, img, blob, ticks,
                   tickStart, sleeps, lag, size,
                   last>>

\* lines 11-13 when standard output is closed or the pipe broken: the call
\* raises.  The header write only buffers, so it fails with nothing handed
\* over (a closed stream); the buffer write and the flush fail while handing
\* bytes to the pipe, of which a proper prefix arrives; a flush with nothing
\* to hand over attempts no write and cannot fail.
WriteFail ==
    /\ pc \in {"hdr", "blob", "flush"}
    /\ pc = "flush" => buf # <<>>
    /\ LET data == IF pc = "hdr" THEN <<>>
                   ELSE IF pc = "blob" THEN buf \o blob ELSE buf
       IN  \E k \in 0..(IF data = <<>> THEN 0 ELSE Len(data) - 1) :
               out' = out \o SubSeq(data, 1, k)
    /\ buf' = <<>>
    /\ err' = "OSError"
    /\ pc' = AfterWriteError
    /\ UNCHANGED <<stdin, now, start, end, font, img, blob, frames, ticks,
                   tickStart, sleeps, lag, size,
                   last>>

\* line 29: the fixed sleep between ticks
Sleep ==
    /\ pc = "sleep"
    /\ \E over \in 0..MaxOversleep :
          /\ now' = SleepUntil(now, over)
          /\ lag' = lag + over
    /\ sleeps' = sleeps + 1
    /\ pc' = "check"
    /\ UNCHANGED <<stdin, err, start, end, font, img, blob, buf, out, frames,
                   ticks, tickStart, size,
                   last>>

Next ==
    \/ ReadConfig
    \/ LoadFont
    \/ Check
    \/ RenderFrame
    \/ Encode
    \/ WriteHeader
    \/ WriteBlob
    \/ Flush
    \/ WriteFail
    \/ Sleep

Spec == Init /\ [][Next]_vars

(***************************************************************************)
(* Reading the output stream the way a consumer does.                      *)
(***************************************************************************)
IsPrefix(p, q) == Len(p) <= Len(q) /\ SubSeq(q, 1, Len(p)) = p

\* the number of complete [length N][N bytes] units at the head of q, and
\* what is left after them
RECURSIVE ParseFrames(_)
ParseFrames(q) ==
    IF Len(q) < 4 THEN [n |-> 0, rest |-> q]
    ELSE LET N == Unpack(SubSeq(q, 1, 4))
         IN  IF Len(q) < 4 + N THEN [n |-> 0, rest |-> q]
             ELSE LET r == ParseFrames(SubSeq(q, 5 + N, Len(q)))
                  IN  [n |-> r.n + 1, rest |-> r.rest]

\* the unit the current tick sends
CurrentFrame == Pack(Len(blob)) \o blob

\* main() is outside send(): between two frames, before the first, or after
\* the last
FlushBoundary == pc \in {"check", "render", "encode", "hdr", "sleep", "done"}

EmptyInput == ""
EmptyObject == "{}"
ZeroDuration == "{\"duration_sec\": 0}"
OneSecond == "{\"duration_sec\": 1}"

\* the input texts json.loads rejects, or accepts as something that is not
\* a key/value object
Unparsable == {t \in InputTexts : t # "" /\ ~JsonLoads(t).ok}
NotAnObject == {t \in InputTexts : JsonLoads(t).ok /\ JsonLoads(t).kind # "dict"}

(***************************************************************************)
(* C1.  Every frame send emits is a 4-byte big-endian header equal to the  *)
(* byte length of the encoded buffer right after it; without a write       *)
(* failure the output stream at every flush boundary is a concatenation of *)
(* complete [length N][N bytes] units, one per flushed frame, with no      *)
(* other byte and nothing left in the buffer.                              *)
(***************************************************************************)
C1_FramedStream ==
    (err = "none" /\ FlushBoundary) =>
        /\ buf = <<>>
        /\ ParseFrames(out) = [n |-> frames, rest |-> <<>>]
        /\ pc = "sleep" =>
              /\ Len(out) >= 4 + Len(blob)
              /\ SubSeq(out, Len(out) - Len(blob) + 1, Len(out)) = blob
              /\ Unpack(SubSeq(out, Len(out) - Len(blob) - 3,
                                Len(out) - Len(blob))) = Len(blob)

\* two frames of different lengths have been flushed
C1_Witness ==
    /\ pc = "sleep" /\ err = "none" /\ frames = 2
    /\ ParseFrames(out).n = 2
    /\ Len(out) # 2 * Len(CurrentFrame)

C3_FatalWrite ==
    err = "OSError" =>
        /\ pc = "crashed"
        /\ ~ENABLED Next
        /\ ticks = frames + 1
        /\ LET p == ParseFrames(out)
           IN  /\ p.n = frames
               /\ IsPrefix(p.rest, CurrentFrame)
               /\ Len(p.rest) < Len(CurrentFrame)

\* the write failed after the header and a part of the buffer had arrived,
\* with one frame flushed before
C3_Witness ==
    /\ err = "OSError" /\ frames = 1
    /\ Len(ParseFrames(out).rest) > 4

(***************************************************************************)
(* C4.  With duration_sec = 0 the first deadline check fails: no frame is  *)
(* rendered, nothing is written or buffered, no sleep is performed, and    *)
(* the process stops at once.                                              *)
(***************************************************************************)
C4_ZeroDuration ==
    (stdin = ZeroDuration /\ pc \notin {"start", "font"}) =>
        /\ pc \in {"check", "done"}
        /\ err = "none"
        /\ end = start
        /\ ticks = 0 /\ frames = 0 /\ sleeps = 0
        /\ out = <<>> /\ buf = <<>>
        /\ img = NoImg

\* the run with duration 0 has stopped
C4_Witness == stdin = ZeroDuration /\ pc = "done" /\ out = <<>>

\* the longest a tick can take: both latencies, the sleep and its overshoot
LongestTick == Tick + 2 * MaxLatency + MaxOversleep

(***************************************************************************)
(* C5 as stated.  With duration_sec = 1 the run ends with between 3 and 5  *)
(* frames, whatever the latencies, and exits within 1 s plus a slack (here *)
(* the longest a tick can take).                                           *)
(***************************************************************************)
C5_Original ==
    (stdin = OneSecond /\ pc = "done") =>
        /\ frames >= 3 /\ frames <= 5
        /\ now - start <= UnitsPerSec + LongestTick

(***************************************************************************)
(* C5 amended.  With duration_sec = 1 the run ends with at most 4 frames   *)
(* (5 is never reached).  It has at least 3 when the time lost to font     *)
(* loading, render/encode/emit latency and sleep overshoot totals less     *)
(* than 0.5 s, and may have fewer otherwise (none only if that time alone  *)
(* reaches 1 s).  The process exits at the first check at or after the     *)
(* deadline: later than the deadline by less than the length of its last   *)
(* tick.                                                                   *)
(***************************************************************************)
C5_FrameCount ==
    (stdin = OneSecond /\ pc = "done") =>
        /\ end = start + UnitsPerSec
        /\ frames <= 4
        /\ lag < 2 * Tick => frames >= 3
        /\ frames = 0 => lag >= UnitsPerSec
        /\ now >= end
        /\ frames >= 1 => tickStart < end
        /\ now = start + frames * Tick + lag

\* a one-second run that lost some time, but less than 0.5 s, and made 3
\* frames
C5_Witness ==
    stdin = OneSecond /\ pc = "done" /\ frames = 3 /\ lag > 0 /\ lag < 2 * Tick

(***************************************************************************)
(* C6.  For the empty input and for {} the deadline is the start time plus *)
(* exactly 10 seconds, and no error is raised at startup.                  *)
(***************************************************************************)
C6_DefaultDuration ==
    (stdin \in {EmptyInput, EmptyObject} /\ pc # "start") =>
        /\ end - start = 10 * UnitsPerSec
        /\ start \in StartTimes
        /\ ~(pc = "crashed" /\ ticks = 0)

\* {} has been read at clock reading 7 and the loop is about to check
C6_Witness ==
    stdin = EmptyObject /\ pc = "check" /\ start = UnitsPerSec - 1
        /\ end = UnitsPerSec - 1 + 10 * UnitsPerSec

(***************************************************************************)
(* C7.  The loop stops at the first deadline check that finds              *)
(* now >= deadline, and only there; a stopped process does nothing more;   *)
(* a tick is entered only by a check that passed, and every step that      *)
(* renders, writes or flushes belongs to such a tick.                      *)
(***************************************************************************)
C7_StopAtDeadline ==
    [][ /\ (pc = "check" /\ now >= end) =>
              (pc' = "done" /\ out' = out /\ buf' = buf /\ frames' = frames)
        /\ (pc' = "done" /\ pc # "done") =>
              (pc = "check" /\ now >= end /\ err = "none")
        /\ pc = "done" => (pc' = "done" /\ out' = out /\ frames' = frames)
        /\ (pc' = "render") =>
              (pc = "check" /\ now < end /\ tickStart' = now
                  /\ ticks' = ticks + 1)
        /\ (out' # out \/ buf' # buf \/ frames' # frames \/ img' # img) =>
              (pc \in {"render", "hdr", "blob", "flush"}
                  /\ tickStart < end /\ ticks = frames + 1)
      ]_vars

\* a run that made frames has stopped: its last tick began before the
\* deadline and the check that stopped it did not
C7_Witness ==
    pc = "done" /\ frames >= 2 /\ tickStart < end /\ now >= end

(***************************************************************************)
(* C8.  In a tick the header is written first, then the buffer verbatim,   *)
(* then the stream is flushed; the flush is complete before the sleep      *)
(* begins.  The stream only grows: bytes that arrived are never changed,   *)
(* nothing is written outside send, and a frame is complete before the     *)
(* next one starts.                                                        *)
(***************************************************************************)
C8_EmitOrder ==
    [][ /\ IsPrefix(out, out')
        /\ err' = "none" => IsPrefix(out \o buf, out' \o buf')
        /\ (pc = "hdr" /\ err' = "none") =>
              /\ ParseFrames(out \o buf) = [n |-> frames, rest |-> <<>>]
              /\ out' \o buf' = (out \o buf) \o Pack(Len(blob))
              /\ pc' = "blob"
        /\ (pc = "blob" /\ err' = "none") =>
              /\ ParseFrames(out \o buf) =
                     [n |-> frames, rest |-> Pack(Len(blob))]
              /\ out' \o buf' = (out \o buf) \o blob
              /\ pc' = "flush"
        /\ (pc = "flush" /\ err' = "none") =>
              /\ out' = out \o buf /\ buf' = <<>>
              /\ frames' = frames + 1
              /\ pc' = "sleep"
        /\ pc' = "sleep" => (pc = "flush" /\ buf' = <<>>)
        /\ sleeps' # sleeps =>
              /\ pc = "sleep" /\ buf = <<>> /\ frames = sleeps + 1
              /\ ParseFrames(out) = [n |-> frames, rest |-> <<>>]
              /\ out' = out
        /\ pc \notin {"hdr", "blob", "flush"} => (out' = out /\ buf' = buf)
      ]_vars

\* the second frame has been flushed and the second sleep is about to begin
C8_Witness ==
    pc = "sleep" /\ frames = 2 /\ sleeps = 1 /\ buf = <<>> /\ Len(out) > 8

(***************************************************************************)
(* C9.  Loading the font never ends the process: when the preferred font   *)
(* cannot be loaded the built-in one is used, and the loop is entered with *)
(* a usable font.  A process that ended without a font ended on its        *)
(* configuration, and a write error only happens inside a tick.            *)
(***************************************************************************)
C9_FontNeverFatal ==
    /\ pc \in Running \cup {"done"} => font \in {"truetype", "default"}
    /\ (pc = "crashed" /\ font = "none") =>
          err \in {"JSONDecodeError", "AttributeError", "TypeError"}
    /\ err = "OSError" => (ticks >= 1 /\ font \in {"truetype", "default"})
    /\ img # NoImg => img.font = font

\* the preferred font failed to load and a tick renders with the fallback
C9_Witness == font = "default" /\ pc = "encode" /\ img.font = "default"

(***************************************************************************)
(* Runs with a finite non-negative duration, in which the process always   *)
(* takes its next step (it is one sequential thread, and the clock and the *)
(* sleep are part of its steps).                                           *)
(***************************************************************************)
LiveInputs == {ZeroDuration, "{\"duration_sec\": 0.5}", OneSecond}

LiveInit == Init /\ stdin \in LiveInputs

LiveSpec == LiveInit /\ [][Next]_vars /\ WF_vars(Next)

(***************************************************************************)
(* C10.  With a finite non-negative duration the process always leaves the *)
(* loop: it stops at the deadline and exits cleanly, or it ends with the   *)
(* error of a failed write.  Checked for the durations 0, 0.5 and 1 s,     *)
(* with the process always taking its next step.                           *)
(***************************************************************************)
C10_LeavesRunning ==
    <>((pc = "done" /\ err = "none") \/ (pc = "crashed" /\ err = "OSError"))

\* a one-second run has stopped at its deadline after 4 frames
C10_Witness == stdin = OneSecond /\ pc = "done" /\ frames = 4 /\ err = "none"

(***************************************************************************)
(* C11.  A tick is render, then emit, then exactly one sleep, then the     *)
(* deadline check again.  The sleep lasts at least 0.25 s counted from the *)
(* moment the emit completed, whatever the tick took before, so the checks *)
(* that open two consecutive ticks are at least 0.25 s apart, and no tick  *)
(* sleeps twice or not at all.                                             *)
(***************************************************************************)
C11_TickShape ==
    [][ /\ pc = "render" => pc' = "encode"
        /\ pc = "encode" => pc' = "hdr"
        /\ pc = "sleep" =>
              /\ pc' = "check"
              /\ sleeps' = sleeps + 1
              /\ now' - now >= Tick
              /\ now' - now <= Tick + MaxOversleep
        /\ sleeps' # sleeps =>
              (pc = "sleep" /\ frames = sleeps + 1 /\ ticks = frames
                  /\ buf = <<>>)
        /\ pc' = "render" =>
              /\ pc = "check"
              /\ sleeps = ticks /\ frames = ticks
              /\ ticks >= 1 => now - tickStart >= Tick
        /\ pc' = "done" => (sleeps = ticks /\ frames = ticks)
      ]_vars

\* a second tick opens after a first one that took 0.25 s or more before
\* its sleep
C11_Witness ==
    pc = "render" /\ ticks = 2 /\ sleeps = 1 /\ lag >= Tick
        /\ now - start >= 2 * Tick

(***************************************************************************)
(* The drawing call of line 27 on its own: a fresh canvas, a font, and any *)
(* measured text size, also one larger than the canvas.                    *)
(***************************************************************************)
OriginInit ==
    /\ stdin = EmptyObject
    /\ now \in StartTimes
    /\ pc = "measured"
    /\ err = "none"
    /\ start = 0
    /\ end = DefaultDuration * UnitsPerSec
    /\ font \in {"truetype", "default"}
    /\ img = NoImg
    /\ blob = <<>>
    /\ buf = <<>>
    /\ out = <<>>
    /\ frames = 0
    /\ ticks = 1
    /\ tickStart = now
    /\ sleeps = 0
    /\ lag = 0
    /\ size \in (0..MaxTextW) \X (0..MaxTextH)
    /\ last = [s |-> <<0, 0, 0>>, blob |-> <<>>]

\* line 27: d.text(((W-tw)//2,(H-th)//2), s, ...)
TextAtOrigin ==
    /\ pc = "measured"
    /\ img' = DrawText(img, TimeStr(now), font, size)
    /\ pc' = "drawn"
    /\ UNCHANGED <<stdin, err, now, start, end, font, blob, buf, out, frames,
                   ticks, tickStart, sleeps, lag, size, last>>

OriginSpec == OriginInit /\ [][TextAtOrigin]_vars

(***************************************************************************)
(* C12.  The origin handed to the drawing call is ((128 - w)//2,           *)
(* (64 - h)//2) with floor division, for every measured width w and height *)
(* h: x is the one integer with 2x <= 128 - w <= 2x + 1, likewise y, so    *)
(* for w > 128 or h > 64 it is the negative floored offset, neither        *)
(* clipped to 0 nor rounded towards 0.                                     *)
(***************************************************************************)
C12_Origin ==
    pc \in {"drawn", "encode"} =>
        /\ 2 * img.x <= 128 - size[1] /\ 128 - size[1] <= 2 * img.x + 1
        /\ 2 * img.y <= 64 - size[2] /\ 64 - size[2] <= 2 * img.y + 1
        /\ img.s = TimeStr(now) /\ img.font = font

\* a text one pixel wider and higher than the canvas is drawn at (-1, -1)
C12_Witness ==
    pc = "drawn" /\ size = <<129, 65>> /\ img.x = 0 - 1 /\ img.y = 0 - 1

(***************************************************************************)
(* C13.  Nothing is carried from one tick to the next: the canvas a tick   *)
(* draws on is a new all-black one, so the canvas and the encoded buffer   *)
(* of a tick are what the time string read in that tick and the font give, *)
(* and nothing else; a tick that reads the same time string as the tick    *)
(* before it encodes a byte-identical buffer.                              *)
(***************************************************************************)
C13_NoCarriedState ==
    /\ pc \in {"encode", "hdr", "blob", "flush", "sleep"} =>
          (img.under = 0 /\ img = Render(img.s, font))
    /\ pc \in {"hdr", "blob", "flush", "sleep"} =>
          /\ blob = PngEncode(Render(img.s, font))
          /\ (last.blob # <<>> /\ last.s = img.s) => blob = last.blob

\* the second tick of a run read the same second as the first and encoded
\* the same bytes
C13_Witness ==
    /\ pc = "hdr" /\ ticks = 2 /\ last.blob # <<>>
    /\ last.s = img.s /\ blob = last.blob

(***************************************************************************)
(* C14.  The default of 10 s is used exactly when the key duration_sec is  *)
(* absent from the parsed object; a numeric value that is present, 0 and   *)
(* negative ones included, is added to the start time as it is.  The       *)
(* deadline is computed once, when the configuration is read, and never    *)
(* changes afterwards.                                                     *)
(***************************************************************************)
C14_DurationOnce ==
    [][ /\ pc # "start" => (end' = end /\ start' = start)
        /\ pc' = "font" =>
              /\ pc = "start" /\ start' = now
              /\ (end' - start' = 10 * UnitsPerSec) <=>
                    (stdin \in {EmptyInput, EmptyObject, "{\"other\": 3}"})
              /\ stdin = ZeroDuration => end' = start'
              /\ stdin = "{\"duration_sec\": 0.125}" =>
                    8 * (end' - start') = UnitsPerSec
              /\ stdin = "{\"duration_sec\": 0.5}" =>
                    2 * (end' - start') = UnitsPerSec
              /\ stdin = OneSecond => end' - start' = UnitsPerSec
              /\ stdin = "{\"duration_sec\": -1}" =>
                    end' - start' = 0 - UnitsPerSec
      ]_vars

\* a configured duration of 0 gave a deadline equal to the start time, and
\* the deadline is still that after the font has loaded
C14_Witness ==
    stdin = ZeroDuration /\ pc = "check" /\ start = UnitsPerSec - 1
        /\ end = start /\ now > start

\* the input texts whose duration_sec is present and not a number
NonNumeric == {t \in InputTexts : JsonLoads(t).ok /\ JsonLoads(t).kind = "dict"
                                     /\ JsonLoads(t).has /\ ~JsonLoads(t).numeric}

(***************************************************************************)
(* C15.  Nothing is written or buffered before the configuration has been  *)
(* parsed, the deadline computed and the font loaded: bytes exist only     *)
(* once a tick has begun, with a font.  A startup failure (a text          *)
(* json.loads rejects, a parsed value that is not an object, a             *)
(* duration_sec that is not a number) ends the process on lines 16-17,     *)
(* with an empty output stream, no frame, no tick and no font loaded.      *)
(***************************************************************************)
C15_NothingBeforeStartup ==
    /\ (pc \in {"start", "font"} \/ ticks = 0) =>
          (out = <<>> /\ buf = <<>> /\ blob = <<>> /\ frames = 0)
    /\ (out # <<>> \/ buf # <<>>) =>
          (ticks >= 1 /\ font \in {"truetype", "default"})
    /\ (stdin \in Unparsable \cup NotAnObject \cup NonNumeric
           /\ pc # "start") =>
          /\ pc = "crashed"
          /\ err = (IF stdin \in Unparsable THEN "JSONDecodeError"
                    ELSE IF stdin \in NotAnObject THEN "AttributeError"
                    ELSE "TypeError")
          /\ out = <<>> /\ buf = <<>> /\ frames = 0 /\ ticks = 0
          /\ sleeps = 0 /\ font = "none"
    /\ err \in {"JSONDecodeError", "AttributeError", "TypeError"} =>
          stdin \in Unparsable \cup NotAnObject \cup NonNumeric

\* a duration_sec that is a string ended the process with nothing written
C15_Witness ==
    stdin = "{\"duration_sec\": \"5\"}" /\ pc = "crashed"
        /\ err = "TypeError" /\ out = <<>>

\* the configured duration, once line 17 has run without error
Duration == end - start
\* ceil(d / 0.25 s)
CeilTicks(d) == (d + Tick - 1) \div Tick
StartedUp == pc \notin {"start"} /\ font # "none"

(***************************************************************************)
(* C16 as stated.  A run with duration D > 0 never has more than           *)
(* ceil(D / 0.25) frames and ends with at least 1, for every latency; a    *)
(* negative duration gives no frame.                                       *)
(***************************************************************************)
C16_Original ==
    /\ (StartedUp /\ Duration > 0) => frames <= CeilTicks(Duration)
    /\ (StartedUp /\ Duration > 0 /\ pc = "done") => frames >= 1
    /\ (StartedUp /\ Duration < 0) => (frames = 0 /\ out = <<>>)

(***************************************************************************)
(* C16 amended.  A run with duration D > 0 never has more than             *)
(* ceil(D / 0.25) frames, for every latency.  It ends with at least 1      *)
(* frame unless loading the font took D or longer: the deadline is fixed   *)
(* before the font loads and first checked after it.  A negative duration  *)
(* behaves like 0: the first check fails, no frame, no byte, no sleep.     *)
(***************************************************************************)
C16_FrameBounds ==
    /\ (StartedUp /\ Duration > 0) =>
          (frames <= CeilTicks(Duration) /\ ticks <= CeilTicks(Duration))
    /\ (StartedUp /\ Duration > 0 /\ pc = "done" /\ frames = 0) =>
          (lag >= Duration /\ now = start + lag /\ sleeps = 0)
    /\ (StartedUp /\ Duration <= 0) =>
          /\ pc \in {"check", "done"}
          /\ frames = 0 /\ ticks = 0 /\ sleeps = 0
          /\ out = <<>> /\ buf = <<>>

\* a run of 0.5 s has ended with its 2 frames although it lost time
C16_Witness ==
    /\ stdin = "{\"duration_sec\": 0.5}" /\ pc = "done"
    /\ frames = 2 /\ lag > 0

\* the step that follows each step of a tick
StepAfter(p) ==
    CASE p = "render" -> "encode"
      [] p = "encode" -> "hdr"
      [] p = "hdr" -> "blob"
      [] p = "blob" -> "flush"
      [] p = "flush" -> "sleep"
      [] p = "sleep" -> "check"
      [] OTHER -> p

(***************************************************************************)
(* C17.  The deadline is looked at only at the top of a tick.  (a) The     *)
(* process stops only at a moment with now >= deadline.  (b) Once a tick's *)
(* check has passed, the tick runs through render, emit and its full sleep *)
(* unless a write fails, also when the deadline passes meanwhile; so bytes *)
(* can be written after the deadline, and the process stops later than the *)
(* deadline by less than the length of its last tick (latency plus sleep). *)
(***************************************************************************)
C17_CheckOnlyAtTop ==
    [][ /\ pc' = "done" =>
              /\ pc = "check" /\ now >= end
              /\ ticks >= 1 => (tickStart < end /\ now - end < now - tickStart)
        /\ (pc \in Running \ {"check"} /\ err' = "none") =>
              (pc' = StepAfter(pc) /\ ticks' = ticks)
        /\ pc \in Running \ {"check"} => pc' \in {StepAfter(pc), "crashed"}
        /\ pc = "flush" /\ err' = "none" => frames' = frames + 1
        /\ pc = "sleep" => now' - now >= Tick
      ]_vars

\* a frame was flushed after the deadline had passed, and its sleep is
\* still to come
C17_Witness ==
    pc = "sleep" /\ err = "none" /\ now > end /\ tickStart < end
        /\ frames = ticks /\ Len(out) > 0

====
